---- MODULE Spec2Model ----
(***************************************************************************)
(* State-synchronisation layer of the generated ad-ops React client:       *)
(*   - the query cache behind the useQuery hooks (src/hooks/*.ts) and the  *)
(*     QueryClient of src/main.tsx,                                        *)
(*   - the server-sent-event bridge of src/hooks/useSSE.ts,                *)
(*   - the toast list of src/stores/ui.ts with the timers of Toast.tsx,    *)
(*   - the persisted preference store of src/stores/preferences.ts.        *)
(* All of them are emitted by ui-react/generate_phase1.py; line numbers in *)
(* the comments are lines of that file.  The hooks and stores are thin     *)
(* calls into @tanstack/react-query, zustand, React and the browser; the   *)
(* behaviour of those calls is modelled as the libraries define it, at the *)
(* call site that selects it.                                              *)
(***************************************************************************)
EXTENDS Integers, Sequences, FiniteSets, TLC

VARIABLES
  queries,      \* QueryClient cache: query key -> query state (l.11)
  observers,    \* hook key -> set of mounted readers of the useQuery hook
  intervals,    \* hook key -> reader -> deadline of its refetch timer, or NoTimer
  retryers,     \* hook key -> the in-flight fetch operation of the query
  now,          \* the clock, in milliseconds
  es,           \* readyState of the EventSource of useSSE (l.124)
  received,     \* log: per frame dispatched, the object merged, Dropped or Ignored
  sidebarCollapsed, \* useUIStore.sidebarCollapsed (l.144)
  toasts,       \* useUIStore.toasts (l.145)
  timers,       \* pending setTimeout callbacks of Toast: set of <<id, deadline>>
  usedIds,      \* ids crypto.randomUUID() has already returned
  createdAt,    \* log: toast id -> time of its addToast
  removals,     \* log: toast id -> number of times it left the list
  dismissed,    \* log: ids removeToast was called with by a consumer
  noops,        \* log: ids removeToast was called with while not in the list
  running,      \* whether the page is loaded
  prefs,        \* in-memory state of usePreferencesStore
  slot,         \* localStorage item 'adops-preferences'
  everSet,      \* log: preference name -> value last set, or "unset"
  reloaded      \* log: whether the page has been loaded again after a close

vars == <<queries, observers, intervals, retryers, now, es, received,
          sidebarCollapsed, toasts, timers, usedIds, createdAt, removals,
          dismissed, noops, running, prefs, slot, everSet, reloaded>>

cacheVars == <<queries, observers, intervals, retryers>>
sseVars   == <<es, received>>
toastVars == <<sidebarCollapsed, toasts, timers, usedIds, createdAt, removals,
              dismissed, noops>>
prefVars  == <<running, prefs, slot, everSet, reloaded>>

----------------------------------------------------------------------------
(* Bounds of the exploration *)

MaxTime == 30000      \* the clock stops here (before the cache's gcTime of 5 min)
TickStep == 30000     \* largest advance of the clock in one step
MaxFrames == 3        \* frames dispatched on the stream
MaxMembers == 2       \* members of a JSON object in a frame
MaxToasts == 2        \* toasts pushed in one run of the client
ToastHorizon == 12000 \* the clock of the store model stops here
ToastStep == 2000     \* largest advance of that clock in one step

Min(a, b) == IF a <= b THEN a ELSE b

----------------------------------------------------------------------------
(* JavaScript values.  An object is a function from a set of field names   *)
(* to atoms; `undefined` is a value of its own.                            *)

Undefined == [t |-> "undefined", v |-> <<>>]
Obj(f) == [t |-> "object", v |-> f]
EmptyArray == [t |-> "array", v |-> <<>>]

----------------------------------------------------------------------------
(* Query cache: the useQuery hooks (l.133-139) over new QueryClient() (l.11) *)

Readers == {"r1", "r2"}

\* queryKey of useAnalytics (l.133) and of useWorkflows (l.135)
DashboardKey == <<"dashboard">>
WorkflowsKey == <<"workflows">>
HookKeys == {DashboardKey, WorkflowsKey}

\* refetchInterval of useAnalytics (l.133); the other hooks set none
RefetchInterval == 30000
HasInterval(k) == k = DashboardKey

\* QueryClient default: a failing queryFn is retried this many times (l.11)
DefaultRetry == 3

NoTimer == -1
NoError == "null"

\* What the queryFn of a hook can resolve to: getDashboard (l.109) returns the
\* parsed body of GET /api/dashboard, getWorkflows (l.112) resolves to [].
DashboardBodies == {Obj([campaigns |-> 1]), Obj([campaigns |-> 2])}
LoaderResults(k) == IF k = DashboardKey THEN DashboardBodies ELSE {EmptyArray}

\* parse (l.104) throws ApiError on a non-2xx response and fetch rejects on a
\* network failure; getWorkflows is Promise.resolve and cannot fail.
LoaderErrors(k) == IF k = DashboardKey THEN {"ApiError", "TypeError"} ELSE {}

\* state of a query just built by the cache
InitialQuery ==
  [data |-> Undefined, dataUpdatedAt |-> 0, error |-> NoError,
   fetchFailureCount |-> 0, fetchFailureReason |-> NoError,
   fetchStatus |-> "idle", status |-> "pending"]

NoRetryer == [running |-> 0, waiting |-> FALSE, cancelRetry |-> FALSE]

\* The reducer of a query, one operator per dispatched action.
FetchAction(q) ==
  [q EXCEPT !.fetchFailureCount = 0,
            !.fetchFailureReason = NoError,
            !.fetchStatus = "fetching",
            !.error = IF q.data = Undefined THEN NoError ELSE @,
            !.status = IF q.data = Undefined THEN "pending" ELSE @]

FailedAction(q, e) ==
  [q EXCEPT !.fetchFailureCount = @ + 1, !.fetchFailureReason = e]

ErrorActionClearing(q, e) ==
  [q EXCEPT !.data = Undefined, !.dataUpdatedAt = 0, !.error = e,
            !.fetchFailureCount = @ + 1, !.fetchFailureReason = e,
            !.fetchStatus = "idle", !.status = "error"]

\* a fetch that failed for good: the error is recorded, data is kept
ErrorAction(q, e) ==
  [q EXCEPT !.error = e,
            !.fetchFailureCount = @ + 1, !.fetchFailureReason = e,
            !.fetchStatus = "idle", !.status = "error"]

\* a queryFn result (manual = FALSE) or setQueryData (manual = TRUE)
SuccessAction(q, data, t, manual) ==
  [q EXCEPT !.data = data, !.dataUpdatedAt = t, !.error = NoError,
            !.status = "success",
            !.fetchStatus = IF manual THEN @ ELSE "idle",
            !.fetchFailureCount = IF manual THEN @ ELSE 0,
            !.fetchFailureReason = IF manual THEN @ ELSE NoError]

\* the cache entry of key k, built on first use
Built(k) == IF k \in DOMAIN queries THEN queries[k] ELSE InitialQuery

StartsLoaderAlways(q) == TRUE

\* Query.fetch: a fetch of a query that is already fetching returns the promise
\* of the operation in flight; only an idle query invokes its queryFn.
StartsLoader(q) == q.fetchStatus = "idle"

\* the cache after every key of K has been asked to fetch
QueriesAfterFetch(K) ==
  [k \in DOMAIN queries \cup K |->
     IF k \in K /\ StartsLoader(Built(k)) THEN FetchAction(Built(k)) ELSE Built(k)]

RetryersAfterFetch(K) ==
  [k \in HookKeys |->
     IF k \notin K THEN retryers[k]
     ELSE IF StartsLoader(Built(k))
          THEN [running |-> retryers[k].running + 1, waiting |-> FALSE,
                cancelRetry |-> FALSE]
          ELSE [retryers[k] EXCEPT !.cancelRetry = FALSE]]

\* useQuery mounts in reader r: the observer subscribes, fetches (staleTime is
\* 0, so cached data is always stale on mount) and arms its refetch timer.
Mount(r, k) ==
  /\ r \notin observers[k]
  /\ observers' = [observers EXCEPT ![k] = @ \cup {r}]
  /\ queries' = QueriesAfterFetch({k})
  /\ retryers' = RetryersAfterFetch({k})
  /\ intervals' = IF HasInterval(k)
                  THEN [intervals EXCEPT ![k][r] = now + RefetchInterval]
                  ELSE intervals
  /\ UNCHANGED <<now, sseVars, toastVars, prefVars>>

IntervalsKeptOnUnmount(r, k) == intervals

\* the observer of reader r is destroyed: its refetch timer is cleared
IntervalsAfterUnmount(r, k) == [intervals EXCEPT ![k][r] = NoTimer]

\* the reader unmounts; a fetch in flight runs on, but is not retried once
\* the query has no observer left
Unmount(r, k) ==
  /\ r \in observers[k]
  /\ observers' = [observers EXCEPT ![k] = @ \ {r}]
  /\ intervals' = IntervalsAfterUnmount(r, k)
  /\ retryers' = [retryers EXCEPT ![k].cancelRetry =
                    IF observers[k] = {r} /\ (retryers[k].running > 0 \/ retryers[k].waiting)
                    THEN TRUE ELSE @]
  /\ UNCHANGED <<queries, now, sseVars, toastVars, prefVars>>

\* the refetch timer of reader r fires (setInterval: it stays armed)
IntervalFire(r, k) ==
  /\ intervals[k][r] = now
  /\ intervals' = [intervals EXCEPT ![k][r] = now + RefetchInterval]
  /\ queries' = QueriesAfterFetch({k})
  /\ retryers' = RetryersAfterFetch({k})
  /\ UNCHANGED <<observers, now, sseVars, toastVars, prefVars>>

\* the window regains focus: every query with an observer is refetched
\* (its data is stale at once, staleTime being 0)
WindowFocus ==
  LET K == {k \in HookKeys : observers[k] # {}} IN
  /\ K # {}
  /\ queries' = QueriesAfterFetch(K)
  /\ retryers' = RetryersAfterFetch(K)
  /\ UNCHANGED <<observers, intervals, now, sseVars, toastVars, prefVars>>

RetryerAfterSettle(rt) ==
  IF rt.running <= 1 THEN NoRetryer ELSE [rt EXCEPT !.running = @ - 1]

\* the queryFn promise resolves with body v
LoaderResolve(k, v) ==
  /\ retryers[k].running > 0
  /\ queries' = [queries EXCEPT ![k] = SuccessAction(@, v, now, FALSE)]
  /\ retryers' = [retryers EXCEPT ![k] = RetryerAfterSettle(@)]
  /\ UNCHANGED <<observers, intervals, now, sseVars, toastVars, prefVars>>

\* the queryFn promise rejects with e: retried after a delay while the failure
\* count is below the retry limit and retries are not cancelled
LoaderReject(k, e) ==
  /\ retryers[k].running > 0
  /\ IF retryers[k].cancelRetry \/ queries[k].fetchFailureCount >= DefaultRetry
     THEN /\ queries' = [queries EXCEPT ![k] = ErrorAction(@, e)]
          /\ retryers' = [retryers EXCEPT ![k] = RetryerAfterSettle(@)]
     ELSE /\ queries' = [queries EXCEPT ![k] = FailedAction(@, e)]
          /\ retryers' = [retryers EXCEPT ![k].running = @ - 1, ![k].waiting = TRUE]
  /\ UNCHANGED <<observers, intervals, now, sseVars, toastVars, prefVars>>

\* the retry delay is over: the queryFn is invoked again, unless retries were
\* cancelled meanwhile, which rejects the fetch with the last failure
RetryWake(k) ==
  /\ retryers[k].waiting
  /\ IF retryers[k].cancelRetry
     THEN /\ queries' = [queries EXCEPT ![k] = ErrorAction(@, @.fetchFailureReason)]
          /\ retryers' = [retryers EXCEPT ![k] = NoRetryer]
     ELSE /\ queries' = queries
          /\ retryers' = [retryers EXCEPT ![k].running = @ + 1, ![k].waiting = FALSE]
  /\ UNCHANGED <<observers, intervals, now, sseVars, toastVars, prefVars>>

PendingIntervals == {intervals[k][r] : k \in HookKeys, r \in Readers} \ {NoTimer}

RECURSIVE SetMin(_)
SetMin(S) == LET x == CHOOSE y \in S : TRUE
             IN IF S = {x} THEN x ELSE Min(x, SetMin(S \ {x}))

\* time passes, up to the next refetch timer
Tick ==
  /\ now < MaxTime
  /\ now \notin PendingIntervals
  /\ now' = SetMin({now + TickStep} \cup {d \in PendingIntervals : d > now})
  /\ UNCHANGED <<cacheVars, sseVars, toastVars, prefVars>>

----------------------------------------------------------------------------
(* Push event bridge: useSSE (l.121-131), mounted once by SSEBridge (l.56) *)

Null == [t |-> "null", v |-> <<>>]

\* "name":value members a frame's JSON text can be made of
Members == {<<"id", "w1">>, <<"a", "1">>, <<"a", "2">>, <<"b", "2">>}

ObjectTexts == UNION {[1..n -> Members] : n \in 0..MaxMembers}

\* payload of a frame: the text of a JSON object, the text `null`, or text
\* that is no JSON
Payloads ==
  {[kind |-> "object", members |-> m] : m \in ObjectTexts}
    \cup {[kind |-> "null", members |-> <<>>],
          [kind |-> "malformed", members |-> <<>>]}

\* frames of the stream: `workflow_update` events with any payload, and an
\* event of another name
Frames ==
  {[name |-> "workflow_update", data |-> p] : p \in Payloads}
    \cup {[name |-> "message", data |-> [kind |-> "object", members |-> << >>]]}

\* JSON.parse (l.126): throws on text that is no JSON; a member name that is
\* repeated takes the value of its last occurrence
JsonParse(p) ==
  IF p.kind = "malformed" THEN [ok |-> FALSE, value |-> Undefined]
  ELSE IF p.kind = "null" THEN [ok |-> TRUE, value |-> Null]
  ELSE LET m == p.members
           Last(f) == CHOOSE i \in DOMAIN m :
                        /\ m[i][1] = f
                        /\ \A j \in DOMAIN m : m[j][1] = f => j <= i
       IN [ok |-> TRUE,
           value |-> Obj([f \in {m[i][1] : i \in DOMAIN m} |-> m[Last(f)][2]])]

DeltaKeyOfResource(data) == <<"workflows">>

\* the query key ['workflows', data.id] of l.127
DeltaKey(data) ==
  <<"workflows", IF "id" \in DOMAIN data.v THEN data.v["id"] ELSE "undefined">>

MergeReplacing(old, data) == Obj(data.v)

\* the updater of l.127: ({ ...(old || {}), ...data })
Merge(old, data) ==
  LET base == IF old = Undefined THEN <<>> ELSE old.v
  IN Obj([f \in DOMAIN base \cup DOMAIN data.v |->
            IF f \in DOMAIN data.v THEN data.v[f] ELSE base[f]])

SetQueryDataKeepingTime(key, data) ==
  (key :> [SuccessAction(Built(key), Merge(Built(key).data, data), now, TRUE)
             EXCEPT !.dataUpdatedAt = Built(key).dataUpdatedAt])
     @@ queries

\* qc.setQueryData(key, updater): the query is built if absent, and its data
\* is set as by a fetch that succeeded now, leaving a fetch in flight alone
SetQueryData(key, data) ==
  (key :> SuccessAction(Built(key), Merge(Built(key).data, data), now, TRUE))
     @@ queries

QueriesAfterThrowClearing(event) == << >>

\* the listener threw (SyntaxError of JSON.parse, TypeError of null.id): the
\* exception is reported and the cache is as it was
QueriesAfterThrow(event) == queries

\* the listener of l.125-128 run on one event
QueriesAfterEvent(event) ==
  LET parsed == JsonParse(event.data) IN
  IF ~parsed.ok \/ parsed.value = Null
  THEN QueriesAfterThrow(event)
  ELSE SetQueryData(DeltaKey(parsed.value), parsed.value)

\* whether the frame is one the listener merges
Decodes(frame) ==
  /\ frame.name = "workflow_update"
  /\ JsonParse(frame.data).ok
  /\ JsonParse(frame.data).value # Null

\* log entries of frames that were not merged: the listener threw, or the
\* event had no listener
Dropped == [t |-> "dropped", v |-> <<>>]
Ignored == [t |-> "ignored", v |-> <<>>]

\* the connection is established
EsOpen ==
  /\ es = "connecting"
  /\ es' = "open"
  /\ UNCHANGED <<received, cacheVars, now, toastVars, prefVars>>

\* the connection is lost: the EventSource reconnects by itself
EsError ==
  /\ es = "open"
  /\ es' = "connecting"
  /\ UNCHANGED <<received, cacheVars, now, toastVars, prefVars>>

\* the server refuses the connection (a status other than 200): the
\* EventSource gives up and stays closed
EsFail ==
  /\ es = "connecting"
  /\ es' = "closed"
  /\ UNCHANGED <<received, cacheVars, now, toastVars, prefVars>>

\* a frame arrives: only `workflow_update` has a listener
DispatchFrame(frame) ==
  /\ es = "open"
  /\ Len(received) < MaxFrames
  /\ received' = Append(received,
                        IF Decodes(frame) THEN JsonParse(frame.data).value
                        ELSE IF frame.name = "workflow_update" THEN Dropped
                        ELSE Ignored)
  /\ queries' = IF frame.name = "workflow_update"
                THEN QueriesAfterEvent(frame)
                ELSE queries
  /\ UNCHANGED <<es, observers, intervals, retryers, now, toastVars, prefVars>>

----------------------------------------------------------------------------
(* Notification store: useUIStore (l.143-149) and the Toast component that *)
(* expires its items (l.175-179)                                           *)

\* delay of the setTimeout of l.177
ToastLifetime == 5000

ToastIds == 1..MaxToasts
Messages == {"saved"}
ToastTypes == {"info", "success", "error"}

IdsOf(list) == {list[i].id : i \in DOMAIN list}

\* crypto.randomUUID() (l.147): an id not returned before
FreshId == Cardinality(usedIds) + 1

FilteredDroppingHead(list, id) ==
  IF id \in IdsOf(list) THEN SelectSeq(list, LAMBDA t : t.id # id)
  ELSE IF list = << >> THEN list
  ELSE Tail(list)

\* s.toasts.filter((t) => t.id !== id) of removeToast (l.148)
Filtered(list, id) == SelectSeq(list, LAMBDA t : t.id # id)

TimersRearmed(list) == {<<id, now + ToastLifetime>> : id \in IdsOf(list)}

TimersOnlyNewest(list) ==
  IF list = << >> THEN {} ELSE {<<list[Len(list)].id, now + ToastLifetime>>}

\* The effect of l.177 runs after every change of `toasts` (every set() of
\* the store yields a new array): it starts a timer for each toast of the
\* list and clears none. Timers of one id with one deadline are one element.
TimersAfterEffect(list) ==
  timers \cup {<<id, now + ToastLifetime>> : id \in IdsOf(list)}

\* addToast(message, type) (l.147), then the effect
AddToast(message, type) ==
  /\ running
  /\ Cardinality(usedIds) < MaxToasts
  /\ LET id == FreshId
         list == Append(toasts, [id |-> id, message |-> message, type |-> type])
     IN /\ toasts' = list
        /\ usedIds' = usedIds \cup {id}
        /\ createdAt' = [createdAt EXCEPT ![id] = now]
        /\ timers' = TimersAfterEffect(list)
  /\ UNCHANGED <<sidebarCollapsed, removals, dismissed, noops, prefVars, cacheVars,
                 now, sseVars>>

RemovalsAfter(list) ==
  [id \in ToastIds |->
     IF id \in IdsOf(toasts) /\ id \notin IdsOf(list) THEN removals[id] + 1
     ELSE removals[id]]

\* a consumer calls removeToast(id) (l.148), then the effect
Dismiss(id) ==
  /\ running
  /\ id \in usedIds
  /\ LET list == Filtered(toasts, id)
     IN /\ toasts' = list
        /\ removals' = RemovalsAfter(list)
        /\ timers' = TimersAfterEffect(list)
  /\ dismissed' = dismissed \cup {id}
  /\ noops' = IF id \in IdsOf(toasts) THEN noops ELSE noops \cup {id}
  /\ UNCHANGED <<sidebarCollapsed, usedIds, createdAt, prefVars, cacheVars, now,
                 sseVars>>

\* a timer of l.177 is due: removeToast(id), then the effect
TimerFire(id, deadline) ==
  /\ <<id, deadline>> \in timers
  /\ deadline = now
  /\ LET list == Filtered(toasts, id)
     IN /\ toasts' = list
        /\ removals' = RemovalsAfter(list)
        /\ timers' = TimersAfterEffect(list) \ {<<id, deadline>>}
  /\ noops' = IF id \in IdsOf(toasts) THEN noops ELSE noops \cup {id}
  /\ UNCHANGED <<sidebarCollapsed, usedIds, createdAt, dismissed, prefVars,
                 cacheVars, now, sseVars>>

\* toggleSidebar (l.146): the toasts array stays the same array, so the
\* effect of Toast does not run
ToggleSidebar ==
  /\ running
  /\ sidebarCollapsed' = ~sidebarCollapsed
  /\ UNCHANGED <<toasts, timers, usedIds, createdAt, removals, dismissed, noops,
                 prefVars, cacheVars, now, sseVars>>

ToastDeadlines == {t[2] : t \in timers}

\* time passes, up to the next toast timer
ToastTick ==
  /\ running
  /\ now < ToastHorizon
  /\ now \notin ToastDeadlines
  /\ now' = SetMin({now + ToastStep} \cup {d \in ToastDeadlines : d > now})
  /\ UNCHANGED <<cacheVars, sseVars, toastVars, prefVars>>

----------------------------------------------------------------------------
(* Preference store: usePreferencesStore (l.151-154), a zustand store      *)
(* wrapped in persist({ name: 'adops-preferences' })                       *)

Densities == {"compact", "comfortable"}
Themes == {"dark", "light"}

\* the state creator of l.153; setDensity is a function-valued field
InitialPrefs ==
  [theme |-> "dark", tableDensity |-> "comfortable", setDensity |-> "function"]

\* the state of a page that is not loaded
NoPrefs == [theme |-> "none", tableDensity |-> "none", setDensity |-> "none"]

\* localStorage holds no item of that name
NoItem == [version |-> -1, state |-> <<>>]

SerializedThemeOnly(state) ==
  [version |-> 0, state |-> [f \in {"theme"} |-> state[f]]]

\* JSON.stringify({ state, version }): function-valued fields are left out
Serialized(state) ==
  [version |-> 0,
   state |-> [f \in {g \in DOMAIN state : state[g] # "function"} |-> state[f]]]

\* hydration: the stored state, if any and of the current version, is spread
\* over the initial state
Hydrated(item) ==
  IF item = NoItem \/ item.version # 0 THEN InitialPrefs
  ELSE [f \in DOMAIN InitialPrefs \cup DOMAIN item.state |->
          IF f \in DOMAIN item.state THEN item.state[f] ELSE InitialPrefs[f]]

\* setDensity(d) (l.153): set() of the persisted store updates the state and
\* writes the localStorage item
SetDensity(d) ==
  /\ running
  /\ prefs' = [prefs EXCEPT !.tableDensity = d]
  /\ slot' = Serialized(prefs')
  /\ everSet' = [everSet EXCEPT !.tableDensity = d]
  /\ UNCHANGED <<running, reloaded>>
  /\ UNCHANGED <<cacheVars, sseVars, toastVars, now>>

\* usePreferencesStore.setState({ theme: t }): theme has no setter of its
\* own; the setState of the persisted store writes the item as well
SetTheme(t) ==
  /\ running
  /\ prefs' = [prefs EXCEPT !.theme = t]
  /\ slot' = Serialized(prefs')
  /\ everSet' = [everSet EXCEPT !.theme = t]
  /\ UNCHANGED <<running, reloaded>>
  /\ UNCHANGED <<cacheVars, sseVars, toastVars, now>>

\* the page is closed: the stores, the query cache and the timers go, and
\* the cleanup of useSSE closes the stream (l.129)
Shutdown ==
  /\ running
  /\ running' = FALSE
  /\ prefs' = NoPrefs
  /\ es' = "closed"
  /\ received' = << >>
  /\ queries' = << >>
  /\ observers' = [k \in HookKeys |-> {}]
  /\ intervals' = [k \in HookKeys |-> [r \in Readers |-> NoTimer]]
  /\ retryers' = [k \in HookKeys |-> NoRetryer]
  /\ sidebarCollapsed' = FALSE
  /\ toasts' = <<>>
  /\ timers' = {}
  /\ usedIds' = {}
  /\ createdAt' = [id \in ToastIds |-> 0]
  /\ removals' = [id \in ToastIds |-> 0]
  /\ dismissed' = {}
  /\ noops' = {}
  /\ UNCHANGED <<slot, everSet, reloaded, now>>

\* the page is loaded: the stores are created, the preference store is
\* hydrated from the item (the persist middleware may write the hydrated
\* state back) and useSSE opens a new EventSource (l.124)
Start ==
  /\ ~running
  /\ running' = TRUE
  /\ prefs' = Hydrated(slot)
  /\ slot' \in {slot, Serialized(prefs')}
  /\ reloaded' = TRUE
  /\ es' = "connecting"
  /\ UNCHANGED <<everSet, cacheVars, received, toastVars, now>>

----------------------------------------------------------------------------
(* Specifications *)

Init ==
  /\ queries = << >>
  /\ observers = [k \in HookKeys |-> {}]
  /\ intervals = [k \in HookKeys |-> [r \in Readers |-> NoTimer]]
  /\ retryers = [k \in HookKeys |-> NoRetryer]
  /\ now = 0
  /\ es = "connecting"
  /\ received = << >>
  /\ sidebarCollapsed = FALSE
  /\ toasts = << >>
  /\ timers = {}
  /\ usedIds = {}
  /\ createdAt = [id \in ToastIds |-> 0]
  /\ removals = [id \in ToastIds |-> 0]
  /\ dismissed = {}
  /\ noops = {}
  /\ running = TRUE
  /\ prefs = Hydrated(NoItem)
  /\ slot \in {NoItem, Serialized(prefs)}
  /\ everSet = [theme |-> "unset", tableDensity |-> "unset"]
  /\ reloaded = FALSE

\* the query cache under its hooks
Next ==
  \/ \E r \in Readers, k \in HookKeys : Mount(r, k)
  \/ \E r \in Readers, k \in HookKeys : Unmount(r, k)
  \/ \E r \in Readers, k \in HookKeys : IntervalFire(r, k)
  \/ WindowFocus
  \/ \E k \in HookKeys : \E v \in LoaderResults(k) : LoaderResolve(k, v)
  \/ \E k \in HookKeys : \E e \in LoaderErrors(k) : LoaderReject(k, e)
  \/ \E k \in HookKeys : RetryWake(k)
  \/ Tick

Spec == Init /\ [][Next]_vars

\* the query cache under the push event bridge
NextSSE ==
  \/ EsOpen
  \/ EsError
  \/ EsFail
  \/ \E frame \in Frames : DispatchFrame(frame)
  \/ Tick

SpecSSE == Init /\ [][NextSSE]_vars

\* the notification store and its timers
NextToasts ==
  \/ \E m \in Messages, ty \in ToastTypes : AddToast(m, ty)
  \/ \E id \in ToastIds : Dismiss(id)
  \/ \E id \in ToastIds : \E d \in ToastDeadlines : TimerFire(id, d)
  \/ ToastTick

SpecToasts == Init /\ [][NextToasts]_vars

\* the page over its loads: what is persisted and what is not
NextPage ==
  \/ \E d \in Densities : SetDensity(d)
  \/ \E t \in Themes : SetTheme(t)
  \/ ToggleSidebar
  \/ EsOpen
  \/ EsError
  \/ EsFail
  \/ Shutdown
  \/ Start

SpecPage == Init /\ [][NextPage]_vars

\* frames that patch one workflow, and one that carries no id
SyncFrames ==
  {[name |-> "workflow_update", data |-> [kind |-> "object", members |-> m]] :
     m \in {<<<<"id", "w1">>, <<"a", "1">>>>,
            <<<<"id", "w1">>, <<"b", "2">>>>,
            <<<<"a", "2">>>>}}

\* the two writers of the one cache: the fetches of the hooks and the
\* deltas of the push bridge
NextSync ==
  \/ \E k \in HookKeys : Mount("r1", k)
  \/ \E k \in HookKeys : IntervalFire("r1", k)
  \/ \E k \in HookKeys : \E v \in LoaderResults(k) : LoaderResolve(k, v)
  \/ WindowFocus
  \/ EsOpen
  \/ \E frame \in SyncFrames : DispatchFrame(frame)
  \/ Tick

SpecSync == Init /\ [][NextSync]_vars

----------------------------------------------------------------------------
(* Claims about the query cache under its hooks (Spec) *)

\* C1: for every key, at most one queryFn invocation is in flight in every
\* reachable state, whatever mounts, timers and focus events ask for a fetch;
\* an invocation in flight is the one operation of a query that is fetching.
C1_AtMostOneLoaderInFlight ==
  \A k \in HookKeys :
    /\ retryers[k].running <= 1
    /\ retryers[k].running = 1 =>
         k \in DOMAIN queries /\ queries[k].fetchStatus = "fetching"

\* a second reader asked for a fetch of a key whose first fetch has not
\* settled: it joined the operation in flight
C1_Witness ==
  \E k \in HookKeys :
    /\ observers[k] = Readers
    /\ retryers[k].running = 1
    /\ queries[k].status = "pending"
    /\ queries[k].fetchFailureCount = 0

\* C2: a fetch that fails for good after an earlier success leaves the entry
\* with status error, the failure in its error field and the value and its
\* timestamp as they were; an entry in status error always carries an error,
\* and an entry in status success carries none (a later success clears it).
C2_FailedFetchKeepsValue ==
  [][\A k \in DOMAIN queries :
       LET q == queries[k]
           p == queries'[k]
       IN /\ (q.fetchStatus = "fetching" /\ p.fetchStatus = "idle" /\ p.status = "error")
               => /\ p.data = q.data
                  /\ p.dataUpdatedAt = q.dataUpdatedAt
                  /\ p.error \in LoaderErrors(k)
                  /\ p.error = p.fetchFailureReason
          /\ p.status = "error" => p.error # NoError
          /\ p.status = "success" => p.error = NoError]_vars

\* a fetch failed after a success: the entry is in error and still has a value
C2_Witness ==
  \E k \in DOMAIN queries :
    /\ queries[k].status = "error"
    /\ queries[k].fetchStatus = "idle"
    /\ queries[k].data \in LoaderResults(k)

\* C6: a reader that is not mounted has no refetch timer, so once the last
\* reader of a key has left no timer of the key is pending and no step starts
\* a queryFn invocation for it; the unmount itself leaves a fetch in flight
\* and the cache alone; every mounted reader of a key with a refetch interval
\* has a timer that is still to come.
C6_NoRefetchWithoutReader ==
  [][\A k \in HookKeys :
       /\ \A r \in Readers \ observers'[k] : intervals'[k][r] = NoTimer
       /\ retryers'[k].running > retryers[k].running => observers'[k] # {}
       /\ (observers'[k] # observers[k] /\ observers'[k] \subseteq observers[k])
            => /\ retryers'[k].running = retryers[k].running
               /\ queries' = queries
       /\ \A r \in observers'[k] :
            HasInterval(k) => intervals'[k][r] >= now']_vars

\* the last reader of the dashboard left while its fetch was in flight; the
\* fetch completed, and a refetch period later nothing is scheduled
C6_Witness ==
  /\ observers[DashboardKey] = {}
  /\ DashboardKey \in DOMAIN queries
  /\ queries[DashboardKey].status = "success"
  /\ queries[DashboardKey].fetchStatus = "idle"
  /\ now >= RefetchInterval
  /\ PendingIntervals = {}

----------------------------------------------------------------------------
(* Claims about the push event bridge (SpecSSE) *)

DeltaKeys == {<<"workflows", "w1">>, <<"workflows", "undefined">>}
FieldNames == {m[1] : m \in Members}

\* positions of the log holding a delta of key k that mentions field f
Mentions(k, f) ==
  {i \in DOMAIN received :
     /\ received[i].t = "object"
     /\ DeltaKey(received[i]) = k
     /\ f \in DOMAIN received[i].v}

\* positions of the log holding a delta of key k
DeltasOf(k) ==
  {i \in DOMAIN received : received[i].t = "object" /\ DeltaKey(received[i]) = k}

Greatest(S) == CHOOSE i \in S : \A j \in S : j <= i

\* C3: after any sequence of deltas, the value of a key has exactly the fields
\* some delta of the key mentioned, each with the value of the last delta that
\* mentioned it; a key no delta addressed has no entry, and the first delta of
\* a key creates its value from the patch alone.
C3_LastWriteWinsPerField ==
  \A k \in DeltaKeys :
    IF DeltasOf(k) = {} THEN k \notin DOMAIN queries
    ELSE /\ k \in DOMAIN queries
         /\ queries[k].data.t = "object"
         /\ \A f \in FieldNames :
              IF Mentions(k, f) = {} THEN f \notin DOMAIN queries[k].data.v
              ELSE /\ f \in DOMAIN queries[k].data.v
                   /\ queries[k].data.v[f] = received[Greatest(Mentions(k, f))].v[f]

\* the deltas {a:1} and {b:2} were applied in that order to a key without an
\* entry, and its value is {a:1, b:2}
C3_Witness ==
  /\ Len(received) = 2
  /\ received[1] = Obj([a |-> "1"])
  /\ received[2] = Obj([b |-> "2"])
  /\ queries[<<"workflows", "undefined">>].data = Obj([a |-> "1", b |-> "2"])

\* C4: a frame whose payload does not decode changes nothing in the cache and
\* leaves the stream open; a frame that decodes is merged whether or not
\* frames before it were dropped: every field it carries is in the value of
\* its key afterwards, and the stream stays open.
C4_MalformedFrameDropped ==
  [][Len(received') = Len(received) + 1 =>
       LET d == received'[Len(received')] IN
       /\ es = "open" /\ es' = "open"
       /\ d = Dropped => queries' = queries
       /\ d.t = "object" =>
            /\ DeltaKey(d) \in DOMAIN queries'
            /\ \A f \in DOMAIN d.v : queries'[DeltaKey(d)].data.v[f] = d.v[f]
            /\ \A k \in DOMAIN queries : k # DeltaKey(d) => queries'[k] = queries[k]]_vars

\* valid, malformed, valid: both deltas are in the value
C4_Witness ==
  /\ Len(received) = 3
  /\ received[1] = Obj([id |-> "w1", a |-> "1"])
  /\ received[2] = Dropped
  /\ received[3] = Obj([id |-> "w1", b |-> "2"])
  /\ es = "open"
  /\ queries[<<"workflows", "w1">>].data = Obj([id |-> "w1", a |-> "1", b |-> "2"])

----------------------------------------------------------------------------
(* Claims about the notification store (SpecToasts) and the preference     *)
(* store (SpecPage)                                                        *)

Expiry(id) == createdAt[id] + ToastLifetime

\* C5 as stated: a toast pushed at T is in the list at every instant before
\* T + lifetime, dismissed or not, out of it at every instant after, and has
\* left the list at most once.
C5_PresentUntilExpiry ==
  \A id \in usedIds :
    /\ now < Expiry(id) => id \in IdsOf(toasts)
    /\ now > Expiry(id) => id \notin IdsOf(toasts)
    /\ removals[id] <= 1

\* C5 amended: a toast pushed at T is out of the list at every instant after
\* T + lifetime, having left it exactly once; at every instant before
\* T + lifetime it is in the list unless removeToast was called with its id;
\* it never leaves the list twice.
C5_ExpiresOnceAfterLifetime ==
  \A id \in usedIds :
    /\ (now < Expiry(id) /\ id \notin dismissed) => id \in IdsOf(toasts)
    /\ now > Expiry(id) => (id \notin IdsOf(toasts) /\ removals[id] = 1)
    /\ id \in IdsOf(toasts) => removals[id] = 0
    /\ removals[id] <= 1

\* a toast nobody dismissed has been taken out by its timer, while a toast
\* pushed later is still shown
C5_Witness ==
  \E id \in usedIds, other \in IdsOf(toasts) :
    /\ id \notin dismissed
    /\ now = Expiry(id)
    /\ id \notin IdsOf(toasts)
    /\ removals[id] = 1
    /\ now < Expiry(other)

\* C9: removeToast with an id that is not in the list, from a consumer or
\* from a timer, leaves the list as it was.
C9_RemoveIsIdempotent ==
  [][\A id \in ToastIds :
       (/\ id \notin IdsOf(toasts)
        /\ \/ Dismiss(id)
           \/ \E d \in ToastDeadlines : TimerFire(id, d))
         => toasts' = toasts]_vars

\* a toast was dismissed, its timer fired afterwards, and another toast is
\* still in the list
C9_Witness ==
  \E id \in noops \cap dismissed :
    /\ now >= Expiry(id)
    /\ \A d \in ToastDeadlines : <<id, d>> \in timers => d > Expiry(id)
    /\ toasts # << >>

\* C10: every toast in the list has a pending timer at its own creation time
\* plus the lifetime and none before it, and that time has not passed,
\* whatever was pushed or dismissed meanwhile.
C10_TimersIndependent ==
  \A id \in IdsOf(toasts) :
    /\ <<id, Expiry(id)>> \in timers
    /\ \A t \in timers : t[1] = id => t[2] >= Expiry(id)
    /\ now <= Expiry(id)

\* a toast pushed after the first one was dismissed, and the first is in
\* the list with its timer
C10_Witness ==
  \E id \in IdsOf(toasts), other \in dismissed :
    /\ createdAt[id] < createdAt[other]
    /\ other \notin IdsOf(toasts)
    /\ now > createdAt[other]
    /\ <<id, Expiry(id)>> \in timers

\* C7: when the page is loaded again, every preference has the value it was
\* last set to, or its initial value if it was never set; setDensity is a
\* function again.
C7_PreferenceSurvivesRestart ==
  [][(~running /\ running') =>
       /\ \A name \in {"theme", "tableDensity"} :
            prefs'[name] = IF everSet[name] = "unset" THEN InitialPrefs[name]
                           ELSE everSet[name]
       /\ prefs'.setDensity = InitialPrefs.setDensity]_vars

\* setDensity('compact'), the page closed and loaded again, and the density
\* read is compact, not the initial comfortable
C7_Witness ==
  /\ reloaded
  /\ running
  /\ everSet.tableDensity = "compact"
  /\ prefs.tableDensity = "compact"
  /\ InitialPrefs.tableDensity # "compact"
  /\ everSet.theme = "unset"
  /\ prefs.theme = InitialPrefs.theme
  /\ ~sidebarCollapsed

----------------------------------------------------------------------------
(* Claim about fetch completions and deltas interleaving (SpecSync)        *)

\* a step in which the fetch of hook key k completes
FetchCompletes(k) ==
  /\ k \in DOMAIN queries
  /\ queries[k].fetchStatus = "fetching"
  /\ queries'[k].fetchStatus = "idle"
  /\ queries'[k].status = "success"

\* a step in which a delta is applied
DeltaApplied ==
  /\ Len(received') = Len(received) + 1
  /\ received'[Len(received')].t = "object"

\* what a fetch completion does to its entry: the value is the result,
\* status and dataUpdatedAt are set
FetchWrites(k) ==
  /\ queries'[k].data \in LoaderResults(k)
  /\ queries'[k].status = "success"
  /\ queries'[k].dataUpdatedAt = now

\* what a delta does to the value of its entry: each field of the patch holds
\* the patch's value, every other field holds what it held
DeltaWritesFields(k, patch) ==
  LET old == IF k \in DOMAIN queries THEN queries[k].data.v ELSE <<>>
      new == queries'[k].data.v
  IN /\ DOMAIN new = DOMAIN old \cup DOMAIN patch.v
     /\ \A f \in DOMAIN new :
          new[f] = IF f \in DOMAIN patch.v THEN patch.v[f] ELSE old[f]

====
